---- MODULE Spec2Model ----
(***************************************************************************)
(* Model of bfc (src/main.cpp): a Brainfuck-to-x86-64 compiler.            *)
(*   readInstructions : text -> Instruction sequence (lexer)              *)
(*   buildProgram     : Instruction sequence -> Command sequence          *)
(*   assembly         : Command sequence -> assembly lines                *)
(*   main             : the driver that chains the three and writes out   *)
(* Spec     is the compiler run on one source text.                       *)
(* ExecSpec runs the emitted lines on the target machine next to a direct *)
(*          interpretation of the source instructions.                    *)
(* Indices (loop counters, jumpTo, stack entries) are 0-based as in the   *)
(* C++ code; TLA+ sequences are 1-based, so element k of a vector v is    *)
(* v[k + 1].                                                               *)
(***************************************************************************)
EXTENDS Integers, Sequences, FiniteSets, TLC

(* ------------------------------ bounds --------------------------------- *)
\* longest source text enumerated exhaustively
MaxLen == 4
\* longest program text executed exhaustively in ExecSpec
MaxRun == 4
\* number of tape cells of the executed machine (the code reserves 30000)
TapeCells == 2
\* executions are cut once this many bytes were written to standard output
MaxOut == 2

(* ------------------------------ inputs --------------------------------- *)
\* characters of the exhaustively enumerated texts: one character that is no
\* instruction and six that are; "<" and "-", which every stage handles as
\* it handles ">" and "+", occur in the examples
Alphabet == {">", "+", ".", ",", "[", "]", "u"}
\* the eight instruction characters
RunAlphabet == {">", "<", "+", "-", ".", ",", "[", "]"}

RECURSIVE SeqsUpTo(_, _)
SeqsUpTo(S, n) ==
    IF n = 0 THEN {<< >>}
    ELSE LET T == SeqsUpTo(S, n - 1)
         IN  T \cup {Append(t, c) : t \in {u \in T : Len(u) = n - 1}, c \in S}

ExPlusLoop == <<"+", "+", "[", "+", "-", "]">>
ExUnclosed == <<"[", "u", "r", "e", "c", "l", "o", "s", "e", "d">>
ExClose    == <<"]">>
ExPlusPut  == <<"+", ".">>
ExLong     == <<"+", "+", "+", "+", "+", "+", "+", "+", "+", "+", "[", ">", "[", "-", "]", "<", "-", "]">>
ExNested   == <<"[", "[", "]", "[", "[", "]", "]", "]">>
ExAll      == <<",", "[", ">", "+", "<", "-", "]", ">", ".", "u">>
ExLeftOpen == <<"<", "-", "[", "[", "-", "]">>
ExLateClose == <<"-", "[", "<", "]", "]", "+">>

Examples == {ExPlusLoop, ExUnclosed, ExClose, ExPlusPut, ExLong, ExNested, ExAll,
             ExLeftOpen, ExLateClose}

Texts == SeqsUpTo(Alphabet, MaxLen) \cup Examples

(* --------------------------- state variables --------------------------- *)
VARIABLES
    pc,         \* position of main
    text,       \* programText
    pos,        \* readInstructions: number of characters consumed
    insts,      \* the Instruction vector
    i,          \* loop counter of buildProgram / of assembly
    loopstack,  \* buildProgram: stack of open loop indices (top = last)
    cmds,       \* the Command vector
    result,     \* how buildProgram ended: "pending", "returned", "crashed"
    asms,       \* the vector of assembly lines
    outfile,    \* lines written to the .asm.tmp file
    exitCode,   \* process exit code of main, -1 while running
    m,          \* ExecSpec: state of the machine running the emitted lines
    ref         \* ExecSpec: state of the direct interpreter of the source

cvars == <<pc, text, pos, insts, i, loopstack, cmds, result, asms, outfile, exitCode>>
vars  == <<pc, text, pos, insts, i, loopstack, cmds, result, asms, outfile, exitCode, m, ref>>

(* ------------------------------- lexer --------------------------------- *)
NoInst == "none"

\* readChar without the case for ','
readChar_noGet(c) ==
    CASE c = "+" -> "PLUS"
      [] c = "-" -> "MINUS"
      [] c = ">" -> "RIGHT"
      [] c = "<" -> "LEFT"
      [] c = "." -> "PUT"
      [] c = "[" -> "LOOP"
      [] c = "]" -> "JMP"
      [] OTHER   -> NoInst

readChar(c) ==
    CASE c = "+" -> "PLUS"
      [] c = "-" -> "MINUS"
      [] c = ">" -> "RIGHT"
      [] c = "<" -> "LEFT"
      [] c = "." -> "PUT"
      [] c = "," -> "GET"
      [] c = "[" -> "LOOP"
      [] c = "]" -> "JMP"
      [] OTHER   -> NoInst

\* one iteration of the range-for of readInstructions
readInstructionsIter(v, c) ==
    IF readChar(c) # NoInst THEN Append(v, readChar(c)) ELSE v

RECURSIVE readInstructionsFrom(_, _, _)
readInstructionsFrom(t, k, v) ==
    IF k > Len(t) THEN v
    ELSE readInstructionsFrom(t, k + 1, readInstructionsIter(v, t[k]))

readInstructions(t) == readInstructionsFrom(t, 1, << >>)

(* ---------------------------- loop resolver ---------------------------- *)
Command(inst, jumpTo) == [inst |-> inst, jumpTo |-> jumpTo]

\* case JMP without the pop
buildJmp_noPop(b, k) ==
    LET jmpto == b.loopstack[Len(b.loopstack)]
        c1    == Append(b.cmds, Command("JMP", jmpto))
    IN  [loopstack |-> b.loopstack,
         cmds      |-> [c1 EXCEPT ![jmpto + 1].jumpTo = k]]

\* case JMP with a non-empty stack: top, pop, emplace_back, patch
buildJmp(b, k) ==
    LET jmpto == b.loopstack[Len(b.loopstack)]
        c1    == Append(b.cmds, Command("JMP", jmpto))
    IN  [loopstack |-> SubSeq(b.loopstack, 1, Len(b.loopstack) - 1),
         cmds      |-> [c1 EXCEPT ![jmpto + 1].jumpTo = k]]

\* case LOOP
buildLoop(b, k) ==
    [loopstack |-> Append(b.loopstack, k),
     cmds      |-> Append(b.cmds, Command("LOOP", 0))]

\* default case that stores the position as target
buildDefault_index(b, inst) ==
    [loopstack |-> b.loopstack,
     cmds      |-> Append(b.cmds, Command(inst, Len(b.cmds)))]

\* default
buildDefault(b, inst) ==
    [loopstack |-> b.loopstack,
     cmds      |-> Append(b.cmds, Command(inst, 0))]

\* one iteration of the loop of buildProgram with a well-defined outcome
buildProgramIter(b, inst, k) ==
    CASE inst = "JMP"  -> buildJmp(b, k)
      [] inst = "LOOP" -> buildLoop(b, k)
      [] OTHER         -> buildDefault(b, inst)

RECURSIVE buildProgramFrom(_, _, _)
buildProgramFrom(v, k, b) ==
    IF k = Len(v) THEN b.cmds
    ELSE buildProgramFrom(v, k + 1, buildProgramIter(b, v[k + 1], k))

\* buildProgram on an input where no loop-end meets an empty stack
buildProgram(v) == buildProgramFrom(v, 0, [loopstack |-> << >>, cmds |-> << >>])

(* ------------------------------ templates ------------------------------ *)
asm_right == "inc r8"
asm_left  == "dec r8"
asm_incr  == "inc byte [rsp+r8]"
asm_decr  == "dec byte [rsp+r8]"

\* output sequence with the syscall ahead of the copy to buf
asm_put_late ==
    <<"mov rax, 1", "mov rdi, 1", "mov rsi, buf", "mov rdx, 1",
      "syscall", "mov r9b, byte [rsp+r8]", "mov byte [buf], r9b">>

asm_put ==
    <<"mov rax, 1", "mov rdi, 1", "mov rsi, buf", "mov rdx, 1",
      "mov r9b, byte [rsp+r8]", "mov byte [buf], r9b", "syscall">>

asm_get ==
    <<"mov rax, 0", "mov rdi, 0", "mov rsi, buf", "mov rdx, 1",
      "syscall", "mov r9b, [buf]", "mov byte [rsp+r8], r9b">>

\* loop-start whose branch targets its own label
asm_loop_self(label, jmpTo) ==
    <<label \o ":", "mov r10b, byte [rsp+r8]", "test r10b, r10b", "jz " \o label>>

asm_loop(label, jmpTo) ==
    <<label \o ":", "mov r10b, byte [rsp+r8]", "test r10b, r10b", "jz " \o jmpTo>>

\* loop-end that defines the label it jumps to
asm_jmp_swapped(label, jmpTo) ==
    <<"jmp " \o jmpTo, jmpTo \o ":">>

asm_jmp(label, jmpTo) ==
    <<"jmp " \o jmpTo, label \o ":">>

Digits == <<"0", "1", "2", "3", "4", "5", "6", "7", "8", "9">>

\* std::to_string of a non-negative int
RECURSIVE to_string(_)
to_string(n) ==
    IF n < 10 THEN Digits[n + 1]
    ELSE to_string(n \div 10) \o Digits[(n % 10) + 1]

int_to_label(n) == "LP" \o to_string(n)

asm_init ==
    <<"global _start", "section .data", "buf: db 0", "section .text",
      "_start:", "xor r8, r8", "sub rsp, 30000">>

asm_tail ==
    <<"add rsp, 30000", "mov rax, 60", "xor rdi, rdi", "syscall">>

\* one iteration of the loop of assembly: the lines pushed for cmds.at(k)
assemblyIter(cmd, k) ==
    CASE cmd.inst = "RIGHT" -> <<asm_right>>
      [] cmd.inst = "LEFT"  -> <<asm_left>>
      [] cmd.inst = "PLUS"  -> <<asm_incr>>
      [] cmd.inst = "MINUS" -> <<asm_decr>>
      [] cmd.inst = "PUT"   -> asm_put
      [] cmd.inst = "GET"   -> asm_get
      [] cmd.inst = "LOOP"  -> asm_loop(int_to_label(k), int_to_label(cmd.jumpTo))
      [] cmd.inst = "JMP"   -> asm_jmp(int_to_label(k), int_to_label(cmd.jumpTo))

RECURSIVE assemblyFrom(_, _, _)
assemblyFrom(c, k, a) ==
    IF k = Len(c) THEN a \o asm_tail
    ELSE assemblyFrom(c, k + 1, a \o assemblyIter(c[k + 1], k))

assembly(c) == assemblyFrom(c, 0, asm_init)

(* --------------------------- the compiler run -------------------------- *)
NoMachine == [on |-> FALSE]

Init ==
    /\ text \in Texts
    /\ pc = "readInstructions"
    /\ pos = 0
    /\ insts = << >>
    /\ i = 0
    /\ loopstack = << >>
    /\ cmds = << >>
    /\ result = "pending"
    /\ asms = << >>
    /\ outfile = << >>
    /\ exitCode = -1
    /\ m = NoMachine
    /\ ref = NoMachine

\* readInstructions: one character of the range-for
LexChar ==
    /\ pc = "readInstructions"
    /\ pos < Len(text)
    /\ insts' = readInstructionsIter(insts, text[pos + 1])
    /\ pos' = pos + 1
    /\ UNCHANGED <<pc, text, i, loopstack, cmds, result, asms, outfile, exitCode, m, ref>>

\* readInstructions returns; main calls buildProgram
LexReturn ==
    /\ pc = "readInstructions"
    /\ pos = Len(text)
    /\ pc' = "buildProgram"
    /\ i' = 0
    /\ loopstack' = << >>
    /\ cmds' = << >>
    /\ UNCHANGED <<text, pos, insts, result, asms, outfile, exitCode, m, ref>>

BuildState == [loopstack |-> loopstack, cmds |-> cmds]

BuildTo(b) ==
    /\ loopstack' = b.loopstack
    /\ cmds' = b.cmds
    /\ i' = i + 1
    /\ UNCHANGED <<pc, text, pos, insts, result, asms, outfile, exitCode, m, ref>>

\* buildProgram, case JMP, stack not empty
BuildJmp ==
    /\ pc = "buildProgram" /\ result = "pending"
    /\ i < Len(insts)
    /\ insts[i + 1] = "JMP"
    /\ loopstack # << >>
    /\ BuildTo(buildJmp(BuildState, i))

\* buildProgram, case JMP, stack empty: top() and pop() of an empty
\* std::stack are undefined.  Either the process dies (the read faults, or
\* cmds.at(jmpto) throws std::out_of_range, which nothing catches), or
\* top() yields some in-range garbage index g whose Command gets patched,
\* and the stack is left empty or holding garbage.
BuildJmpEmpty ==
    /\ pc = "buildProgram" /\ result = "pending"
    /\ i < Len(insts)
    /\ insts[i + 1] = "JMP"
    /\ loopstack = << >>
    /\ \/ /\ result' = "crashed"
          /\ pc' = "exit"
          /\ exitCode' = 134
          /\ UNCHANGED <<text, pos, insts, i, loopstack, cmds, asms, outfile, m, ref>>
       \/ \E g \in 0 .. i :
             /\ cmds' = [Append(cmds, Command("JMP", g)) EXCEPT ![g + 1].jumpTo = i]
             /\ loopstack' \in {<< >>, <<g>>}
             /\ i' = i + 1
             /\ UNCHANGED <<pc, text, pos, insts, result, asms, outfile, exitCode, m, ref>>

\* buildProgram, case LOOP
BuildLoop ==
    /\ pc = "buildProgram" /\ result = "pending"
    /\ i < Len(insts)
    /\ insts[i + 1] = "LOOP"
    /\ BuildTo(buildLoop(BuildState, i))

\* buildProgram, default case
BuildDefault ==
    /\ pc = "buildProgram" /\ result = "pending"
    /\ i < Len(insts)
    /\ insts[i + 1] \notin {"LOOP", "JMP"}
    /\ BuildTo(buildDefault(BuildState, insts[i + 1]))

\* buildProgram returns cmds; main calls assembly, which starts from asm_init
BuildReturn ==
    /\ pc = "buildProgram" /\ result = "pending"
    /\ i = Len(insts)
    /\ result' = "returned"
    /\ pc' = "assembly"
    /\ i' = 0
    /\ asms' = asm_init
    /\ UNCHANGED <<text, pos, insts, loopstack, cmds, outfile, exitCode, m, ref>>

\* assembly: one Command
AsmCommand ==
    /\ pc = "assembly"
    /\ i < Len(cmds)
    /\ asms' = asms \o assemblyIter(cmds[i + 1], i)
    /\ i' = i + 1
    /\ UNCHANGED <<pc, text, pos, insts, loopstack, cmds, result, outfile, exitCode, m, ref>>

\* assembly appends asm_tail and returns
AsmReturn ==
    /\ pc = "assembly"
    /\ i = Len(cmds)
    /\ asms' = asms \o asm_tail
    /\ pc' = "open"
    /\ UNCHANGED <<text, pos, insts, i, loopstack, cmds, result, outfile, exitCode, m, ref>>

\* main opens the output file and writes every line, or fails to open it
WriteOut ==
    /\ pc = "open"
    /\ \/ /\ outfile' = asms
          /\ pc' = "nasm"
          /\ UNCHANGED exitCode
       \/ /\ pc' = "exit"
          /\ exitCode' = 1
          /\ UNCHANGED outfile
    /\ UNCHANGED <<text, pos, insts, i, loopstack, cmds, result, asms, m, ref>>

\* main runs the assembler
Nasm ==
    /\ pc = "nasm"
    /\ \/ /\ pc' = "ld" /\ UNCHANGED exitCode
       \/ /\ pc' = "exit" /\ exitCode' = 1
    /\ UNCHANGED <<text, pos, insts, i, loopstack, cmds, result, asms, outfile, m, ref>>

\* main runs the linker, removes the temporary files and returns 0
Ld ==
    /\ pc = "ld"
    /\ pc' = "exit"
    /\ \/ exitCode' = 0
       \/ exitCode' = 1
    /\ UNCHANGED <<text, pos, insts, i, loopstack, cmds, result, asms, outfile, m, ref>>

Next ==
    \/ LexChar
    \/ LexReturn
    \/ BuildJmp
    \/ BuildJmpEmpty
    \/ BuildLoop
    \/ BuildDefault
    \/ BuildReturn
    \/ AsmCommand
    \/ AsmReturn
    \/ WriteOut
    \/ Nasm
    \/ Ld

Spec == Init /\ [][Next]_vars

(* --------------------------- reading a line ---------------------------- *)
\* a line "name:" defines the label name
IsLabelDef(l) == Len(l) > 1 /\ SubSeq(l, Len(l), Len(l)) = ":"
LabelOf(l)    == SubSeq(l, 1, Len(l) - 1)
\* "jz name" and "jmp name" reference the label name
IsJz(l)       == Len(l) > 3 /\ SubSeq(l, 1, 3) = "jz "
IsJmp(l)      == Len(l) > 4 /\ SubSeq(l, 1, 4) = "jmp "
IsJump(l)     == IsJz(l) \/ IsJmp(l)
TargetOf(l)   == IF IsJz(l) THEN SubSeq(l, 4, Len(l)) ELSE SubSeq(l, 5, Len(l))


(* ------------------- bracket structure of an input --------------------- *)
\* number of LOOP minus number of JMP among the first k instructions of v
RECURSIVE DepthAt(_, _)
DepthAt(v, k) ==
    IF k = 0 THEN 0
    ELSE DepthAt(v, k - 1)
         + (IF v[k] = "LOOP" THEN 1 ELSE IF v[k] = "JMP" THEN -1 ELSE 0)

NoDanglingClose(v) == \A k \in 1 .. Len(v) : DepthAt(v, k) >= 0
DanglingOpen(v)    == NoDanglingClose(v) /\ DepthAt(v, Len(v)) > 0
Balanced(v)        == NoDanglingClose(v) /\ DepthAt(v, Len(v)) = 0

\* 0-based index of the loop-start that the loop-end at 0-based index j closes
MatchOf(v, j) ==
    CHOOSE k \in 0 .. j :
        /\ v[k + 1] = "LOOP"
        /\ DepthAt(v, k) = DepthAt(v, j + 1)
        /\ \A l \in (k + 1) .. (j - 1) :
               ~(v[l + 1] = "LOOP" /\ DepthAt(v, l) = DepthAt(v, j + 1))

Idx(v) == 0 .. (Len(v) - 1)

(* ------------------ running the emitted lines (x86-64) ----------------- *)
\* bytes that a read from standard input may deliver, and end of input
InBytes == {0, 1, 255}
EOF     == -1
\* longest input history of an execution
MaxIn   == 2

Byte(n)   == n % 256
InTape(a) == a \in 0 .. (TapeCells - 1)
ZeroTape  == [a \in 0 .. (TapeCells - 1) |-> 0]

\* line numbers at which the label name is defined
DefsOf(a, name) == {d \in 1 .. Len(a) : IsLabelDef(a[d]) /\ LabelOf(a[d]) = name}

\* the process image at _start: buf is 0 ("buf: db 0"), registers are 0
MachineInit(a) ==
    [on |-> TRUE, status |-> "running",
     rip |-> CHOOSE d \in 1 .. Len(a) : a[d] = "_start:",
     r8 |-> 0, reserved |-> FALSE, mem |-> ZeroTape, buf |-> 0,
     r9b |-> 0, r10b |-> 0, zf |-> FALSE,
     rax |-> 0, rdi |-> 0, rsi |-> "none", rdx |-> 0,
     out |-> << >>, inp |-> << >>, exit |-> -1, tick |-> 0]

Stop(mm, why) == [mm EXCEPT !.status = why]
Fall(mm)      == [mm EXCEPT !.rip = mm.rip + 1]
\* the byte [rsp+r8] is a tape cell only between "sub rsp" and "add rsp"
CellOk(mm)    == mm.reserved /\ InTape(mm.r8)

\* a jump to name: to its one definition, as the assembler resolves it
JumpTo(mm, a, name) ==
    IF Cardinality(DefsOf(a, name)) = 1
    THEN [mm EXCEPT !.rip = CHOOSE d \in DefsOf(a, name) : TRUE]
    ELSE Stop(mm, "fault")

\* the syscall instruction; in is what a read delivers
Syscall(mm, in) ==
    CASE mm.rax = 1 /\ mm.rdi = 1 /\ mm.rsi = "buf" /\ mm.rdx = 1 ->
            IF Len(mm.out) >= MaxOut THEN Stop(mm, "cut")
            ELSE Fall([mm EXCEPT !.out = Append(mm.out, mm.buf), !.rax = 1])
      [] mm.rax = 0 /\ mm.rdi = 0 /\ mm.rsi = "buf" /\ mm.rdx = 1 ->
            IF Len(mm.inp) >= MaxIn THEN Stop(mm, "cut")
            ELSE IF in = EOF
                 THEN Fall([mm EXCEPT !.inp = Append(mm.inp, EOF), !.rax = 0])
                 ELSE Fall([mm EXCEPT !.inp = Append(mm.inp, in), !.buf = in, !.rax = 1])
      [] mm.rax = 60 -> [mm EXCEPT !.status = "exited", !.exit = mm.rdi]
      [] OTHER -> Stop(mm, "fault")

\* one line of the emitted text
ExecLine(mm, a, in) ==
    LET l == a[mm.rip]
    IN  CASE l = "syscall" -> Syscall(mm, in)
          [] IsJz(l)  -> IF mm.zf THEN JumpTo(mm, a, TargetOf(l)) ELSE Fall(mm)
          [] IsJmp(l) -> JumpTo(mm, a, TargetOf(l))
          [] IsLabelDef(l) -> Fall(mm)
          [] l = "xor r8, r8" -> Fall([mm EXCEPT !.r8 = 0, !.zf = TRUE])
          [] l = "xor rdi, rdi" -> Fall([mm EXCEPT !.rdi = 0, !.zf = TRUE])
          [] l = "sub rsp, 30000" -> Fall([mm EXCEPT !.reserved = TRUE, !.zf = FALSE])
          [] l = "add rsp, 30000" -> Fall([mm EXCEPT !.reserved = FALSE, !.zf = FALSE])
          [] l = "inc r8" -> Fall([mm EXCEPT !.r8 = mm.r8 + 1, !.zf = (mm.r8 + 1 = 0)])
          [] l = "dec r8" -> Fall([mm EXCEPT !.r8 = mm.r8 - 1, !.zf = (mm.r8 - 1 = 0)])
          [] l = "inc byte [rsp+r8]" ->
                IF CellOk(mm)
                THEN Fall([mm EXCEPT !.mem[mm.r8] = Byte(mm.mem[mm.r8] + 1),
                                     !.zf = (Byte(mm.mem[mm.r8] + 1) = 0)])
                ELSE Stop(mm, "oob")
          [] l = "dec byte [rsp+r8]" ->
                IF CellOk(mm)
                THEN Fall([mm EXCEPT !.mem[mm.r8] = Byte(mm.mem[mm.r8] + 255),
                                     !.zf = (Byte(mm.mem[mm.r8] + 255) = 0)])
                ELSE Stop(mm, "oob")
          [] l = "mov rax, 0"   -> Fall([mm EXCEPT !.rax = 0])
          [] l = "mov rax, 1"   -> Fall([mm EXCEPT !.rax = 1])
          [] l = "mov rax, 60"  -> Fall([mm EXCEPT !.rax = 60])
          [] l = "mov rdi, 0"   -> Fall([mm EXCEPT !.rdi = 0])
          [] l = "mov rdi, 1"   -> Fall([mm EXCEPT !.rdi = 1])
          [] l = "mov rsi, buf" -> Fall([mm EXCEPT !.rsi = "buf"])
          [] l = "mov rdx, 1"   -> Fall([mm EXCEPT !.rdx = 1])
          [] l = "mov r9b, byte [rsp+r8]" ->
                IF CellOk(mm) THEN Fall([mm EXCEPT !.r9b = mm.mem[mm.r8]])
                ELSE Stop(mm, "oob")
          [] l = "mov r10b, byte [rsp+r8]" ->
                IF CellOk(mm) THEN Fall([mm EXCEPT !.r10b = mm.mem[mm.r8]])
                ELSE Stop(mm, "oob")
          [] l = "mov byte [rsp+r8], r9b" ->
                IF CellOk(mm) THEN Fall([mm EXCEPT !.mem[mm.r8] = mm.r9b])
                ELSE Stop(mm, "oob")
          [] l = "mov byte [buf], r9b" -> Fall([mm EXCEPT !.buf = mm.r9b])
          [] l = "mov r9b, [buf]"      -> Fall([mm EXCEPT !.r9b = mm.buf])
          [] l = "test r10b, r10b"     -> Fall([mm EXCEPT !.zf = (mm.r10b = 0)])
          [] OTHER -> Stop(mm, "fault")

\* number of lines assembly emits for the first k Commands of c
RECURSIVE LinesBefore(_, _)
LinesBefore(c, k) ==
    IF k = 0 THEN 0
    ELSE LinesBefore(c, k - 1) + Len(assemblyIter(c[k], k - 1))

\* line at which the lines of Command k start (k = Len(c): the epilogue)
CmdStart(c, k) == Len(asm_init) + LinesBefore(c, k) + 1
IsCmdStart(c, n) == \E k \in 0 .. Len(c) : CmdStart(c, k) = n

(* ---------------- interpreting the source instructions ----------------- *)
\* 0-based index of the loop-end that closes the loop-start at index k
CloseOf(v, k) ==
    CHOOSE j \in k .. (Len(v) - 1) :
        /\ v[j + 1] = "JMP"
        /\ DepthAt(v, j + 1) = DepthAt(v, k)
        /\ \A l \in (k + 1) .. (j - 1) :
               ~(v[l + 1] = "JMP" /\ DepthAt(v, l + 1) = DepthAt(v, k))

RefInit ==
    [on |-> TRUE, status |-> "running", ip |-> 0, ptr |-> 0, tape |-> ZeroTape,
     staging |-> 0, out |-> << >>, inp |-> << >>, tick |-> 0]

RefNext(rr) == [rr EXCEPT !.ip = rr.ip + 1, !.tick = 1 - rr.tick]

\* one instruction of the source program; in is what the read delivers
Interpret(rr, v, in) ==
    LET inst == v[rr.ip + 1]
        ok   == InTape(rr.ptr)
        oob  == [rr EXCEPT !.status = "oob", !.tick = 1 - rr.tick]
    IN  CASE inst = "RIGHT" -> RefNext([rr EXCEPT !.ptr = rr.ptr + 1])
          [] inst = "LEFT"  -> RefNext([rr EXCEPT !.ptr = rr.ptr - 1])
          [] inst = "PLUS"  ->
                IF ok THEN RefNext([rr EXCEPT !.tape[rr.ptr] = Byte(rr.tape[rr.ptr] + 1)])
                ELSE oob
          [] inst = "MINUS" ->
                IF ok THEN RefNext([rr EXCEPT !.tape[rr.ptr] = Byte(rr.tape[rr.ptr] + 255)])
                ELSE oob
          [] inst = "PUT" ->
                IF ok THEN RefNext([rr EXCEPT !.staging = rr.tape[rr.ptr],
                                              !.out = Append(rr.out, rr.tape[rr.ptr])])
                ELSE oob
          [] inst = "GET" ->
                IF ok
                THEN LET got == IF in = EOF THEN rr.staging ELSE in
                     IN  RefNext([rr EXCEPT !.staging = got,
                                            !.tape[rr.ptr] = got,
                                            !.inp = Append(rr.inp, in)])
                ELSE oob
          [] inst = "LOOP" ->
                IF ok
                THEN IF rr.tape[rr.ptr] = 0
                     THEN [rr EXCEPT !.ip = CloseOf(v, rr.ip) + 1, !.tick = 1 - rr.tick]
                     ELSE RefNext(rr)
                ELSE oob
          [] inst = "JMP" ->
                [rr EXCEPT !.ip = MatchOf(v, rr.ip), !.tick = 1 - rr.tick]

(* ---------------------------- the execution ---------------------------- *)
\* programs that are run: every well-formed text up to MaxRun, and examples
ExCat     == <<",", "[", ".", ",", "]">>
ExRunOff  == <<"+", "[", ">", "+", "]">>
ExCopy    == <<"+", "+", "[", "-", ">", "+", "<", "]", ">", ".">>
ExSkipped == <<"u", "+", "u", "[", "-", "u", "]", ".">>
RunExamples == {ExPlusLoop, ExPlusPut, ExLong, ExNested, ExAll, ExCat, ExRunOff, ExCopy,
                ExSkipped}

RunTexts ==
    {t \in SeqsUpTo(RunAlphabet, MaxRun) \cup RunExamples : Balanced(readInstructions(t))}

ExecInit ==
    /\ text \in RunTexts
    /\ pc = "run"
    /\ pos = Len(text)
    /\ insts = readInstructions(text)
    /\ i = Len(insts)
    /\ loopstack = << >>
    /\ cmds = buildProgram(insts)
    /\ result = "returned"
    /\ asms = assembly(cmds)
    /\ outfile = asms
    /\ exitCode = 0
    /\ m = MachineInit(asms)
    /\ ref = RefInit

\* the machine executes the line at rip; tick flips each time it leaves the
\* lines of a Command for the first line of a Command or of the epilogue
MachineStep ==
    /\ pc = "run"
    /\ m.status = "running"
    /\ m.tick = ref.tick
    /\ \E in \in (IF asms[m.rip] = "syscall" /\ m.rax = 0 THEN InBytes ELSE {}) \cup {EOF} :
          LET n == ExecLine(m, asms, in)
          IN  m' = IF /\ m.rip >= CmdStart(cmds, 0)
                      /\ m.rip < CmdStart(cmds, Len(cmds))
                      /\ n.status = "running"
                      /\ IsCmdStart(cmds, n.rip)
                   THEN [n EXCEPT !.tick = 1 - n.tick]
                   ELSE n
    /\ UNCHANGED <<cvars, ref>>

\* the interpreter executes the instruction the machine has just completed
\* (its tick differs from the machine's), reading what the machine was given
RefStep ==
    /\ pc = "run"
    /\ ref.status = "running"
    /\ ref.tick # m.tick
    /\ ref.ip < Len(insts)
    /\ ref' = Interpret(ref, insts,
                        IF Len(m.inp) > Len(ref.inp) THEN m.inp[Len(ref.inp) + 1] ELSE EOF)
    /\ UNCHANGED <<cvars, m>>

ExecNext == MachineStep \/ RefStep

ExecSpec == ExecInit /\ [][ExecNext]_vars

(* ------------------------------- claims -------------------------------- *)

\* C1: whenever the instruction sequence leaves a loop-start unclosed,
\* buildProgram fails instead of returning a Program.
C1_DanglingOpenFails ==
    DanglingOpen(readInstructions(text)) => result # "returned"

\* C2: a loop-end met with an empty stack makes buildProgram abort with a
\* LoopMismatch error, emitting no Command and patching none.
C2_DanglingCloseAborts ==
    [][ ( /\ pc = "buildProgram" /\ result = "pending"
          /\ i < Len(insts) /\ insts[i + 1] = "JMP" /\ loopstack = << >> )
        => (result' = "LoopMismatch" /\ cmds' = cmds) ]_vars

\* C3: for a source text with unbalanced brackets main never reaches code
\* generation: no assembly line is produced or written.
C3_NoCodegenOnUnbalanced ==
    ~Balanced(readInstructions(text))
        => (pc # "assembly" /\ asms = << >> /\ outfile = << >>)

\* C4: for a well-balanced input the returned Program pairs brackets
\* symmetrically and totally, each loop-start before its loop-end, each
\* loop-end the target of exactly one loop-start, and no two pairs cross.
C4_PairingSymmetric ==
    (result = "returned" /\ Balanced(insts)) =>
        /\ \A k \in Idx(cmds) : cmds[k + 1].inst = "LOOP" =>
              LET j == cmds[k + 1].jumpTo
              IN  /\ j > k /\ j < Len(cmds)
                  /\ cmds[j + 1].inst = "JMP"
                  /\ cmds[j + 1].jumpTo = k
        /\ \A j \in Idx(cmds) : cmds[j + 1].inst = "JMP" =>
              Cardinality({k \in Idx(cmds) :
                              cmds[k + 1].inst = "LOOP" /\ cmds[k + 1].jumpTo = j}) = 1
        /\ \A a, c \in Idx(cmds) :
              (cmds[a + 1].inst = "LOOP" /\ cmds[c + 1].inst = "LOOP" /\ a < c) =>
                  \/ cmds[a + 1].jumpTo < c
                  \/ cmds[c + 1].jumpTo < cmds[a + 1].jumpTo

C4_Witness ==
    /\ result = "returned"
    /\ text = ExNested
    /\ cmds[1].jumpTo = 7
    /\ cmds[4].jumpTo = 6

\* C7: the lexer keeps exactly the characters that are one of the eight
\* symbols, in source order, each as its Instruction; others are skipped.
Symbols  == <<">", "<", "+", "-", ".", ",", "[", "]">>
InstName == <<"RIGHT", "LEFT", "PLUS", "MINUS", "PUT", "GET", "LOOP", "JMP">>
IsSymbol(c) == \E n \in 1 .. 8 : Symbols[n] = c
InstOfSymbol(c) == InstName[CHOOSE n \in 1 .. 8 : Symbols[n] = c]

C7_LexerFilters ==
    LET kept == SelectSeq(SubSeq(text, 1, pos), IsSymbol)
    IN  /\ Len(insts) = Cardinality({k \in 1 .. pos : IsSymbol(text[k])})
        /\ insts = [n \in 1 .. Len(kept) |-> InstOfSymbol(kept[n])]

C7_Witness ==
    /\ pc = "buildProgram"
    /\ text = ExUnclosed
    /\ insts = <<"LOOP">>

\* C10: when no loop-end meets an empty stack, buildProgram emits one
\* Command per instruction in input order, non-loop Commands have target 0,
\* and a step changes an emitted Command only by patching the target of the
\* loop-start matching the loop-end being processed.
C10_State ==
    (result = "returned" /\ NoDanglingClose(insts)) =>
        /\ Len(cmds) = Len(insts)
        /\ \A k \in 1 .. Len(cmds) :
              /\ cmds[k].inst = insts[k]
              /\ (cmds[k].inst \notin {"LOOP", "JMP"} => cmds[k].jumpTo = 0)
        /\ (text = ExPlusLoop =>
              /\ Len(cmds) = 6
              /\ cmds[3] = Command("LOOP", 5)
              /\ cmds[6] = Command("JMP", 2))

C10_Step ==
    (NoDanglingClose(insts) /\ pc # "readInstructions") =>
        /\ Len(cmds') >= Len(cmds)
        /\ \A k \in 1 .. Len(cmds) :
              cmds'[k] # cmds[k] =>
                  /\ pc = "buildProgram"
                  /\ insts[i + 1] = "JMP"
                  /\ k = MatchOf(insts, i) + 1
                  /\ cmds[k] = Command("LOOP", 0)
                  /\ cmds'[k] = Command("LOOP", i)

C10_OneCommandPerInstruction == [] C10_State /\ [][C10_Step]_vars

C10_Witness ==
    /\ result = "returned"
    /\ text = ExPlusLoop
    /\ Len(cmds) = 6

AssemblyReturned == pc \in {"open", "nasm", "ld"} \/ (pc = "exit" /\ result = "returned")

\* C6: for a well-formed Program every label referenced by a jump is defined
\* exactly once, no label is defined twice, and there are as many loop-start
\* label definitions as distinct labels referenced by conditional branches.
C6_LabelsConsistent ==
    (AssemblyReturned /\ Balanced(insts)) =>
        LET L     == 1 .. Len(asms)
            Defs  == {d \in L : IsLabelDef(asms[d])}
            Heads == {d \in Defs : d < Len(asms) /\ asms[d + 1] = "mov r10b, byte [rsp+r8]"}
        IN  /\ \A r \in L : IsJump(asms[r]) =>
                   Cardinality({d \in Defs : LabelOf(asms[d]) = TargetOf(asms[r])}) = 1
            /\ \A d, e \in Defs : asms[d] = asms[e] => d = e
            /\ Cardinality(Heads) = Cardinality({TargetOf(asms[r]) : r \in {q \in L : IsJz(asms[q])}})

C6_Witness ==
    /\ pc = "open"
    /\ text = ExLong
    /\ \E r \in 1 .. Len(asms) : asms[r] = "jz LP17"
    /\ \E r \in 1 .. Len(asms) : asms[r] = "LP17:"
    /\ \E r \in 1 .. Len(asms) : asms[r] = "jmp LP12"

\* C8: the output of assembly is the prologue, then the template of each
\* Command in Program order, then the epilogue; without loop instructions
\* there is no label definition and no jump in between; "+." gives one
\* increment line and then the output sequence, copy before syscall.
RECURSIVE Templates(_, _)
Templates(c, n) ==
    IF n = 0 THEN << >>
    ELSE Templates(c, n - 1) \o assemblyIter(c[n], n - 1)

C8_PrologueBodyEpilogue ==
    AssemblyReturned =>
        /\ asms = asm_init \o Templates(cmds, Len(cmds)) \o asm_tail
        /\ SubSeq(asms, 1, 7) =
              <<"global _start", "section .data", "buf: db 0", "section .text",
                "_start:", "xor r8, r8", "sub rsp, 30000">>
        /\ SubSeq(asms, Len(asms) - 3, Len(asms)) =
              <<"add rsp, 30000", "mov rax, 60", "xor rdi, rdi", "syscall">>
        /\ ((\A k \in 1 .. Len(cmds) : cmds[k].inst \notin {"LOOP", "JMP"}) =>
               \A r \in 8 .. (Len(asms) - 4) :
                   ~IsLabelDef(asms[r]) /\ ~IsJump(asms[r]))
        /\ (text = ExPlusPut =>
               SubSeq(asms, 8, Len(asms) - 4) =
                  <<"inc byte [rsp+r8]",
                    "mov rax, 1", "mov rdi, 1", "mov rsi, buf", "mov rdx, 1",
                    "mov r9b, byte [rsp+r8]", "mov byte [buf], r9b", "syscall">>)

C8_Witness ==
    /\ pc = "open"
    /\ text = ExPlusPut
    /\ Len(asms) = 19

\* C5: whenever the machine stands at the first line of a Command (or of
\* the epilogue) and the interpreter has caught up, the interpreter is at
\* that Command (has terminated), with the same pointer, tape, input history
\* and output; a zero loop-start thus continues just after the matching
\* loop-end and a loop-end at the matching loop-start's test.  The machine
\* runs the epilogue and exits, with code 0, only after the source program
\* terminated; it leaves the tape only where the interpreter does; it never
\* meets an undefined label or an unknown line.
C5_SameBehaviour ==
    LET same == /\ m.r8 = ref.ptr
                /\ m.mem = ref.tape
                /\ m.inp = ref.inp
                /\ m.out = ref.out
        epi  == CmdStart(cmds, Len(cmds))
    IN  /\ m.status # "fault"
        /\ ref.status = "running"
        /\ (m.status = "running" /\ m.tick = ref.tick /\ IsCmdStart(cmds, m.rip)) =>
              /\ ref.ip \in 0 .. Len(insts)
              /\ m.rip = CmdStart(cmds, ref.ip)
              /\ (m.rip = epi) <=> (ref.ip = Len(insts))
              /\ same
        /\ (m.rip > epi \/ m.status = "exited") =>
              /\ ref.ip = Len(insts) /\ ref.tick = m.tick
              /\ same
        /\ m.status = "exited" => m.exit = 0
        /\ m.status = "oob" =>
              /\ ref.tick = m.tick
              /\ ref.ip < Len(insts)
              /\ insts[ref.ip + 1] \notin {"RIGHT", "LEFT", "JMP"}
              /\ ~InTape(ref.ptr)

C5_Witness ==
    /\ text = ExCopy
    /\ m.status = "exited"
    /\ m.out = <<2>>
    /\ ref.out = <<2>>
    /\ m.tick = ref.tick

====
